---- MODULE Spec2Model ----
(***************************************************************************)
(* Greek-Conjugator-App: the startup build of the 'verbs' table from the   *)
(* CSV source (src/app.py, initialize_database), the Flask request         *)
(* handlers that read it, and the stand-alone migration script             *)
(* (src/db_builder.py, migrate_data) that writes the 'conjugations' table. *)
(*                                                                         *)
(* A string is a sequence of one-character strings.  A DataFrame / table   *)
(* cell is a record [isna, str]: isna is pandas' NaN and SQLite's NULL.    *)
(* A row is a function from column names to cells.                         *)
(***************************************************************************)
EXTENDS Naturals, Sequences, FiniteSets, TLC

VARIABLES
    csv,         \* the source file 'greek verb conjugation table v2.csv'
    store,       \* the store file 'verbs.db'
    pc,          \* the app process: "boot", "serving" or "crashed"
    runs,        \* how many times the app process has been started
    resp,        \* the response to the latest request
    log,         \* the last line initialize_database printed
    migrateLog,  \* the last line migrate_data printed
    firstBuild   \* the 'verbs' table as the first start of the app left it

vars == <<csv, store, pc, runs, resp, log, migrateLog, firstBuild>>

(***************************************************************************)
(* Bounds of the model.                                                    *)
(***************************************************************************)
MaxRows == 2
MaxRuns == 2

(***************************************************************************)
(* Program constants.                                                      *)
(***************************************************************************)
MinDbSize == 100

critical_cols == {"ID", "Greek_Verb", "Translation", "English_Verb"}

Columns == critical_cols \cup {"Verb_Group", "Present_Ego"}

(***************************************************************************)
(* Characters.  Python's str.strip() and the regex class \s agree on what  *)
(* whitespace is; space and tab stand for it.                              *)
(***************************************************************************)
Whitespace == {" ", "\t"}

NaN == [isna |-> TRUE, str |-> <<>>]

Str(s) == [isna |-> FALSE, str |-> s]

\* re '^\s*$' : the whole string is whitespace (or empty)
IsBlankStr(s) == \A i \in 1..Len(s) : s[i] \in Whitespace

RECURSIVE LStrip(_)
LStrip(s) == IF s # <<>> /\ Head(s) \in Whitespace THEN LStrip(Tail(s)) ELSE s

RECURSIVE RStrip(_)
RStrip(s) ==
    IF s # <<>> /\ s[Len(s)] \in Whitespace
    THEN RStrip(SubSeq(s, 1, Len(s) - 1))
    ELSE s

\* str.strip()
Strip(s) == RStrip(LStrip(s))

(***************************************************************************)
(* The source file and pandas.read_csv.                                    *)
(* csv.kind: "absent" (no such file), "utf8" (decodes as UTF-8), "latin1"  *)
(* (UTF-8 decoding fails, ISO-8859-1 decoding succeeds), "malformed" (the  *)
(* parser rejects it under every encoding).  csv.header is the header row, *)
(* csv.rows the cells as read_csv yields them: NaN for an empty field, the *)
(* raw text otherwise.                                                     *)
(***************************************************************************)
DataFrame(cols, rows) == [cols |-> cols, rows |-> rows]

EmptyFrame == DataFrame({}, <<>>)

Project(r, cols) == [c \in cols |-> r[c]]

\* pd.read_csv(CSV_FILE, encoding=...)
ReadCsv(src, encoding) ==
    IF src.kind = "absent"
    THEN [err |-> "FileNotFoundError", df |-> EmptyFrame]
    ELSE IF src.kind = "malformed"
    THEN [err |-> "ParserError", df |-> EmptyFrame]
    ELSE IF src.kind = "latin1" /\ encoding = "utf-8"
    THEN [err |-> "UnicodeDecodeError", df |-> EmptyFrame]
    ELSE [err |-> "none",
          df  |-> DataFrame(src.header,
                            [i \in 1..Len(src.rows) |-> Project(src.rows[i], src.header)])]

\* try utf-8, except UnicodeDecodeError: iso-8859-1
ReadCsvWithFallback(src) ==
    LET first == ReadCsv(src, "utf-8")
    IN  IF first.err = "UnicodeDecodeError" THEN ReadCsv(src, "iso-8859-1") ELSE first

(***************************************************************************)
(* The cleaning steps of initialize_database.                              *)
(***************************************************************************)
\* step 1 left out
BlankToNaNKeep(cell) == cell

\* step 1: df.replace(r'^\s*$', np.nan, regex=True), one cell
BlankToNaN(cell) == IF ~cell.isna /\ IsBlankStr(cell.str) THEN NaN ELSE cell

\* step 2 left out
StripCellNoop(cell) == cell

\* step 2: x.strip() if isinstance(x, str) else x
StripCell(cell) == IF cell.isna THEN cell ELSE Str(Strip(cell.str))

\* step 1 on the whole frame
ReplaceBlanks(df) ==
    DataFrame(df.cols,
              [i \in 1..Len(df.rows) |-> [c \in df.cols |-> BlankToNaN(df.rows[i][c])]])

\* step 2 on every column that holds strings
StripStrings(df) ==
    DataFrame(df.cols,
              [i \in 1..Len(df.rows) |-> [c \in df.cols |-> StripCell(df.rows[i][c])]])

\* df.dropna(subset=...): rows with no NaN in the subset columns, in order
DropNa(df, subset) ==
    DataFrame(df.cols, SelectSeq(df.rows, LAMBDA r : \A c \in subset : ~r[c].isna))

\* step 4: fillna(''), one cell
FillNa(cell) == IF cell.isna THEN Str(<<>>) ELSE cell

\* step 4 on the whole frame
FillFrame(df) ==
    DataFrame(df.cols,
              [i \in 1..Len(df.rows) |-> [c \in df.cols |-> FillNa(df.rows[i][c])]])

\* steps 1-4 on a frame that has the critical columns
CleanFrame(df) == FillFrame(DropNa(StripStrings(ReplaceBlanks(df)), critical_cols))

(***************************************************************************)
(* The store file verbs.db.                                                *)
(* kind: "absent", "empty" (0 bytes: SQLite reads it as a database with no *)
(* table), "garbage" (bytes that are no SQLite database), "sqlite".        *)
(* removable: whether os.remove on the file succeeds.                      *)
(***************************************************************************)
NoTable == [exists |-> FALSE, cols |-> {}, rows |-> <<>>]

Table(df) == [exists |-> TRUE, cols |-> df.cols, rows |-> df.rows]

AbsentStore(removable) ==
    [kind |-> "absent", size |-> 0, removable |-> removable,
     verbs |-> NoTable, conjugations |-> NoTable]

\* a connection that starts from a fresh file, as the startup does
get_db_connection_fresh(st) ==
    [st EXCEPT !.kind = "empty", !.size = 0, !.verbs = NoTable, !.conjugations = NoTable]

\* sqlite3.connect(DATABASE): creates the file, 0 bytes, when there is none
get_db_connection(st) == IF st.kind = "absent" THEN [st EXCEPT !.kind = "empty"] ELSE st

\* the size of a database file that holds a table: two 4096-byte pages
SqliteFile(st) == [st EXCEPT !.kind = "sqlite", !.size = 2 * 4096]

\* df.to_sql(name, conn, if_exists='replace', index=False) on an open store
ToSql(st, name, df) ==
    IF st.kind = "garbage"
    THEN [err |-> "DatabaseError", store |-> st]
    ELSE [err |-> "none",
          store |-> IF name = "verbs"
                    THEN [SqliteFile(st) EXCEPT !.verbs = Table(df)]
                    ELSE [SqliteFile(st) EXCEPT !.conjugations = Table(df)]]

\* the existing file is kept
RemoveNever(st) == [raised |-> FALSE, store |-> st]

\* lines 29-35: an existing file of at least 100 bytes is deleted
RemoveStaleStore(st) ==
    IF st.kind = "absent" \/ st.size < MinDbSize
    THEN [raised |-> FALSE, store |-> st]
    ELSE IF st.removable
    THEN [raised |-> FALSE, store |-> AbsentStore(st.removable)]
    ELSE [raised |-> TRUE, store |-> st]

(***************************************************************************)
(* SQLite as the handlers use it.                                          *)
(***************************************************************************)
\* a SELECT on 'verbs' raises unless the file is a database, the table
\* exists and every column the statement names is one of its columns
SelectFails(st, named) ==
    \/ st.kind # "sqlite"
    \/ ~st.verbs.exists
    \/ ~(named \subseteq st.verbs.cols)

\* the Unicode code point: BINARY collation compares UTF-8 bytes, which
\* orders strings as their code points do
CodePoint(c) ==
    CASE c = "\t" -> 9   [] c = " " -> 32  [] c = "%" -> 37  [] c = "1" -> 49
      [] c = "2" -> 50   [] c = "9" -> 57  [] c = "R" -> 82  [] c = "U" -> 85
      [] c = "_" -> 95   [] c = "e" -> 101 [] c = "n" -> 110 [] c = "r" -> 114
      [] c = "u" -> 117  [] c = "x" -> 120 [] c = "z" -> 122
      [] c = "Τ" -> 932  [] c = "ρ" -> 961 [] c = "τ" -> 964 [] c = "ω" -> 969
      [] OTHER -> 0

RECURSIVE StrLess(_, _)
StrLess(a, b) ==
    IF b = <<>> THEN FALSE
    ELSE IF a = <<>> THEN TRUE
    ELSE IF Head(a) = Head(b) THEN StrLess(Tail(a), Tail(b))
    ELSE CodePoint(Head(a)) < CodePoint(Head(b))

\* NULL sorts before every text value
CellLess(x, y) ==
    IF x.isna THEN ~y.isna
    ELSE IF y.isna THEN FALSE
    ELSE StrLess(x.str, y.str)

RECURSIVE InsertBy(_, _, _)
InsertBy(r, sorted, col) ==
    IF sorted = <<>> THEN <<r>>
    ELSE IF CellLess(r[col], Head(sorted)[col]) THEN <<r>> \o sorted
    ELSE <<Head(sorted)>> \o InsertBy(r, Tail(sorted), col)

RECURSIVE OrderBy(_, _)
\* ORDER BY col ASC; rows with equal keys keep their table order
OrderBy(rows, col) ==
    IF rows = <<>> THEN <<>>
    ELSE InsertBy(rows[Len(rows)], OrderBy(SubSeq(rows, 1, Len(rows) - 1), col), col)

\* LIKE folds case for the ASCII letters only
AsciiLower(c) == CASE c = "R" -> "r" [] c = "U" -> "u" [] OTHER -> c

RECURSIVE Like(_, _)
\* text LIKE pattern: '%' is any run of characters, '_' any one character
Like(pattern, text) ==
    IF pattern = <<>> THEN text = <<>>
    ELSE IF Head(pattern) = "%"
    THEN IF Like(Tail(pattern), text) THEN TRUE
         ELSE text # <<>> /\ Like(pattern, Tail(text))
    ELSE IF text = <<>> THEN FALSE
    ELSE IF Head(pattern) = "_" \/ AsciiLower(Head(pattern)) = AsciiLower(Head(text))
    THEN Like(Tail(pattern), Tail(text))
    ELSE FALSE

\* cell LIKE ?: NULL LIKE x is NULL, which WHERE takes as false
CellLike(cell, pattern) == ~cell.isna /\ Like(pattern, cell.str)

\* cell IS NOT '': true of NULL and of every non-empty text
IsNotEmpty(cell) == cell.isna \/ cell.str # <<>>

\* fetchone(): the first of the selected rows, none when there is none
FetchOne(rows) == IF rows = <<>> THEN <<>> ELSE <<Head(rows)>>

(***************************************************************************)
(* Responses: what jsonify(...) carries, and the HTTP status.              *)
(***************************************************************************)
Json(route, status, success, msg, term, verbs, sentence) ==
    [route |-> route, status |-> status, success |-> success, msg |-> msg,
     term |-> term, verbs |-> verbs, sentence |-> sentence]

NoResp == Json("none", 0, FALSE, "", <<>>, <<>>, <<>>)

\* how an f-string renders a fetched value: NULL comes back as None
FormatCell(cell) == IF cell.isna THEN <<"None">> ELSE cell.str

(***************************************************************************)
(* initialize_database (src/app.py), as a function of the store and the    *)
(* source: the store it leaves, what it prints last, and whether an        *)
(* exception leaves the function.                                          *)
(***************************************************************************)
Outcome(raised, message, st) == [raised |-> raised, log |-> message, store |-> st]

\* the same build without the delete and with if_exists='append'
initialize_database_append(st, src) ==
    LET rd == ReadCsvWithFallback(src)
    IN  IF rd.err = "FileNotFoundError" THEN Outcome(FALSE, "csv_not_found", st)
        ELSE IF rd.err # "none" \/ ~(critical_cols \subseteq rd.df.cols)
        THEN Outcome(FALSE, "init_error", st)
        ELSE IF st.kind = "garbage" THEN Outcome(FALSE, "init_error", st)
        ELSE LET df == CleanFrame(rd.df)
                 old == IF st.verbs.exists THEN st.verbs.rows ELSE <<>>
             IN  Outcome(FALSE, "built",
                         [SqliteFile(st) EXCEPT
                             !.verbs = Table(DataFrame(df.cols, old \o df.rows))])

initialize_database(st, src) ==
    LET chk == RemoveStaleStore(st)
    IN  IF chk.raised
        THEN \* os.remove is outside the try block
             Outcome(TRUE, "traceback", chk.store)
        ELSE LET rd == ReadCsvWithFallback(src)
             IN  IF rd.err = "FileNotFoundError"
                 THEN Outcome(FALSE, "csv_not_found", chk.store)
                 ELSE IF rd.err # "none"
                 THEN Outcome(FALSE, "init_error", chk.store)
                 ELSE IF ~(critical_cols \subseteq rd.df.cols)
                 THEN \* dropna(subset=critical_cols) raises KeyError
                      Outcome(FALSE, "init_error", chk.store)
                 ELSE LET conn == get_db_connection(chk.store)
                          w    == ToSql(conn, "verbs", CleanFrame(rd.df))
                      IN  IF w.err # "none"
                          THEN Outcome(FALSE, "init_error", conn)
                          ELSE Outcome(FALSE, "built", w.store)

(***************************************************************************)
(* migrate_data (src/db_builder.py), as a function of the store and the    *)
(* source: the store it leaves and what it prints last.                    *)
(***************************************************************************)
migrate_data_result(st, src) ==
    IF src.kind = "absent"
    THEN Outcome(FALSE, "csv_not_found", st)
    ELSE LET rd == ReadCsv(src, "utf-8")
         IN  IF rd.err # "none" \/ ~("Greek_Verb" \in rd.df.cols)
             THEN Outcome(FALSE, "read_error", st)
             ELSE LET engine == get_db_connection(st)
                      w == ToSql(engine, "conjugations", DropNa(rd.df, {"Greek_Verb"}))
                  IN  IF w.err # "none"
                      THEN Outcome(FALSE, "sql_error", engine)
                      ELSE Outcome(FALSE, "migrated", w.store)

(***************************************************************************)
(* The inputs: source rows, source files, store files, request inputs.     *)
(***************************************************************************)
Row(id, gv, ev, tr, vg, pe) ==
    [c \in Columns |->
        CASE c = "ID" -> id
          [] c = "Greek_Verb" -> gv
          [] c = "English_Verb" -> ev
          [] c = "Translation" -> tr
          [] c = "Verb_Group" -> vg
          [] c = "Present_Ego" -> pe]

Blank == Str(<<" ", "\t">>)

RowRun ==
    Row(Str(<<"1">>), Str(<<"τ", "ρ">>), Str(<<"R", "u">>), Str(<<"u", " ", "n">>),
        Str(<<"2">>), Str(<<"τ", "ρ">>))

\* every text cell padded, Verb_Group whitespace-only, Present_Ego empty
RowPadded ==
    Row(Str(<<"2", " ">>), Str(<<" ", "ρ", "ω">>), Str(<<"x", " ">>),
        Str(<<"\t", "z", "e", "\t">>), Blank, NaN)

\* a second row with the ID of RowRun
RowSameId ==
    Row(Str(<<"1">>), Str(<<"ω">>), Str(<<"e">>), Str(<<"n", "e">>),
        NaN, Str(<<"ω">>))

\* RowRun with one critical cell empty or whitespace-only
DirtyRows ==
    {[RowRun EXCEPT ![c] = v] : c \in critical_cols, v \in {NaN, Blank}}

SourceRows == {RowRun, RowPadded, RowSameId} \cup DirtyRows

SeqsUpTo(S, n) == UNION {[1..k -> S] : k \in 0..n}

Headers ==
    {Columns, Columns \ {"Translation"}, Columns \ {"Greek_Verb"}, critical_cols}

Source(kind, header, rows) == [kind |-> kind, header |-> header, rows |-> rows]

Sources ==
    {Source("absent", {}, <<>>), Source("malformed", {}, <<>>)}
    \cup {Source("utf8", Columns, rs) : rs \in SeqsUpTo(SourceRows, MaxRows)}
    \cup {Source(k, h, rs) : k \in {"utf8", "latin1"}, h \in Headers,
                             rs \in SeqsUpTo(SourceRows, 1)}

\* a record no source row cleans to: what an earlier deployment left
StaleRow ==
    Row(Str(<<"9">>), Str(<<"ω">>), Str(<<"n">>), Str(<<"n">>), NaN, Str(<<"ω">>))

StaleTable == Table(DataFrame(Columns, <<StaleRow>>))

\* a table created by a build whose inserts were rolled back
PartialTable == Table(DataFrame(Columns, <<>>))

StoreFile(kind, size, removable, verbs, conjugations) ==
    [kind |-> kind, size |-> size, removable |-> removable,
     verbs |-> verbs, conjugations |-> conjugations]

\* removable matters only to a file that some start finds with 100 bytes
\* or more; a file that cannot be deleted is tried where it does
Stores ==
    {AbsentStore(r) : r \in BOOLEAN}
    \cup {StoreFile("empty", 0, TRUE, NoTable, NoTable),
          StoreFile("garbage", MinDbSize - 1, TRUE, NoTable, NoTable)}
    \cup {StoreFile("garbage", MinDbSize, r, NoTable, NoTable) : r \in BOOLEAN}
    \cup {SqliteFile(StoreFile("sqlite", 0, r, StaleTable, NoTable)) : r \in BOOLEAN}
    \cup {SqliteFile(StoreFile("sqlite", 0, TRUE, PartialTable, NoTable)),
          SqliteFile(StoreFile("sqlite", 0, TRUE, NoTable, StaleTable))}

\* the 'term' query parameter of /search
Terms ==
    {<<>>, <<" ">>, <<"τ">>, <<"Τ">>, <<"r", "U">>, <<" ", "n", " ">>,
     <<"_">>, <<"%">>, <<"z", "z">>}

\* the body of a POST to /report_missing_verb: an object with 'verb', an
\* object without it, the JSON value null
Bodies == {"verb", "no_verb", "null"}

(***************************************************************************)
(* The state machine.                                                      *)
(***************************************************************************)
Init ==
    /\ csv \in Sources
    /\ store \in Stores
    /\ pc = "boot"
    /\ runs = 0
    /\ resp = NoResp
    /\ log = "none"
    /\ migrateLog = "none"
    /\ firstBuild = NoTable

\* line 74: the module-level call, once per start of the process
Startup ==
    /\ pc = "boot"
    /\ LET out == initialize_database(store, csv)
       IN  /\ store' = out.store
           /\ log' = out.log
           /\ pc' = IF out.raised THEN "crashed" ELSE "serving"
           /\ firstBuild' = IF runs = 0 THEN out.store.verbs ELSE firstBuild
    /\ runs' = runs + 1
    /\ UNCHANGED <<csv, resp, migrateLog>>

\* the process is started again (a new deployment), on the same source
Restart ==
    /\ pc \in {"serving", "crashed"}
    /\ runs < MaxRuns
    /\ pc' = "boot"
    /\ resp' = NoResp
    /\ log' = "none"
    /\ UNCHANGED <<csv, store, runs, migrateLog, firstBuild>>

\* python db_builder.py
migrate_data ==
    /\ LET out == migrate_data_result(store, csv)
       IN  /\ store' = out.store
           /\ migrateLog' = out.log
    /\ UNCHANGED <<csv, pc, runs, resp, log, firstBuild>>

(***************************************************************************)
(* The request handlers.  Each opens the store with get_db_connection      *)
(* (which creates the file when there is none) and answers with jsonify.   *)
(***************************************************************************)
Serving == pc = "serving"

Frame == UNCHANGED <<csv, pc, runs, log, migrateLog, firstBuild>>

\* GET /all_verbs
all_verbs ==
    /\ Serving
    /\ LET conn  == get_db_connection(store)
           named == {"ID", "Greek_Verb", "English_Verb", "Translation", "Verb_Group"}
       IN  /\ store' = conn
           /\ resp' =
                IF SelectFails(conn, named)
                THEN Json("all_verbs", 500, FALSE, "Could not retrieve verb list.",
                          <<>>, <<>>, <<>>)
                ELSE LET sorted == OrderBy(conn.verbs.rows, "Greek_Verb")
                     IN  Json("all_verbs", 200, TRUE, "", <<>>,
                              [i \in 1..Len(sorted) |-> Project(sorted[i], named)], <<>>)
    /\ Frame

\* GET /search?term=...
search_verb ==
    /\ Serving
    /\ \E raw \in Terms :
         LET term == Strip(raw)
         IN  IF term = <<>>
             THEN /\ resp' = Json("search", 200, FALSE, "Please enter a term.",
                                  term, <<>>, <<>>)
                  /\ store' = store
             ELSE LET conn      == get_db_connection(store)
                      term_like == <<"%">> \o term \o <<"%">>
                      Matches(r) == \/ CellLike(r["Greek_Verb"], term_like)
                                    \/ CellLike(r["English_Verb"], term_like)
                                    \/ CellLike(r["Translation"], term_like)
                  IN  /\ store' = conn
                      /\ resp' =
                           IF SelectFails(conn, {"Greek_Verb", "English_Verb", "Translation"})
                           THEN Json("search", 500, FALSE, "A database error occurred.",
                                     term, <<>>, <<>>)
                           ELSE LET verb_row == FetchOne(SelectSeq(conn.verbs.rows, Matches))
                                IN  IF verb_row # <<>>
                                    THEN Json("search", 200, TRUE, "", term, verb_row, <<>>)
                                    ELSE Json("search", 200, FALSE, "verb_not_found",
                                              term, <<>>, <<>>)
    /\ Frame

\* GET /random_verb
random_verb ==
    /\ Serving
    /\ LET conn == get_db_connection(store)
       IN  /\ store' = conn
           /\ IF SelectFails(conn, {"Greek_Verb"})
              THEN resp' = Json("random_verb", 500, FALSE, "A database error occurred.",
                                <<>>, <<>>, <<>>)
              ELSE LET rows == SelectSeq(conn.verbs.rows,
                                         LAMBDA r : IsNotEmpty(r["Greek_Verb"]))
                   IN  IF rows = <<>>
                       THEN resp' = Json("random_verb", 200, FALSE,
                                         "Could not retrieve a random verb.",
                                         <<>>, <<>>, <<>>)
                       ELSE \* ORDER BY RANDOM() LIMIT 1
                            \E i \in 1..Len(rows) :
                               resp' = Json("random_verb", 200, TRUE, "", <<>>,
                                            <<rows[i]>>, <<>>)
    /\ Frame

\* GET /generate_sentence
generate_sentence ==
    /\ Serving
    /\ LET conn  == get_db_connection(store)
           named == {"Greek_Verb", "Present_Ego", "Translation"}
       IN  /\ store' = conn
           /\ IF SelectFails(conn, named)
              THEN resp' = Json("generate_sentence", 500, FALSE,
                                "Error retrieving verb for sentence generation.",
                                <<>>, <<>>, <<>>)
              ELSE LET rows == SelectSeq(conn.verbs.rows,
                                         LAMBDA r : /\ IsNotEmpty(r["Present_Ego"])
                                                    /\ IsNotEmpty(r["Translation"]))
                   IN  IF rows = <<>>
                       THEN resp' = Json("generate_sentence", 200, FALSE,
                                         "No verbs available to generate a sentence.",
                                         <<>>, <<>>, <<>>)
                       ELSE \E i \in 1..Len(rows) :
                               resp' = Json("generate_sentence", 200, TRUE, "", <<>>,
                                            <<Project(rows[i], {"Greek_Verb"})>>,
                                            <<"Εγώ ">> \o FormatCell(rows[i]["Present_Ego"])
                                              \o <<" κάθε μέρα. (I ">>
                                              \o FormatCell(rows[i]["Translation"])
                                              \o <<" every day.)">>)
    /\ Frame

\* POST /report_missing_verb
report_missing_verb ==
    /\ Serving
    /\ \E body \in Bodies :
         resp' = IF body = "null"
                 THEN \* data is None: data.get raises, Flask answers 500
                      Json("report_missing_verb", 500, FALSE, "Internal Server Error",
                           <<>>, <<>>, <<>>)
                 ELSE Json("report_missing_verb", 200, TRUE, "Report received.",
                           <<>>, <<>>, <<>>)
    /\ UNCHANGED store
    /\ Frame

Next ==
    \/ Startup
    \/ Restart
    \/ migrate_data
    \/ all_verbs
    \/ search_verb
    \/ random_verb
    \/ generate_sentence
    \/ report_missing_verb

Spec == Init /\ [][Next]_vars

(***************************************************************************)
(* The specification's vocabulary, stated without the code's operators.    *)
(***************************************************************************)
\* absent after blank coercion: no value, empty, or whitespace only
Absent(cell) == cell.isna \/ {i \in DOMAIN cell.str : cell.str[i] \notin Whitespace} = {}

\* a source row that passes the gate
Admissible(r) == \A c \in critical_cols : ~Absent(r[c])

\* s without its leading and trailing whitespace
Trimmed(s) ==
    LET solid == {i \in DOMAIN s : s[i] \notin Whitespace}
    IN  IF solid = {} THEN <<>>
        ELSE SubSeq(s, CHOOSE i \in solid : \A j \in solid : i <= j,
                       CHOOSE i \in solid : \A j \in solid : j <= i)

\* the record a source row is to be persisted as
Normalized(r, cols) ==
    [c \in cols |-> IF Absent(r[c]) THEN Str(<<>>) ELSE Str(Trimmed(r[c].str))]

AdmissibleIndexes == {i \in DOMAIN csv.rows : Admissible(csv.rows[i])}

\* the startup of the running process built the table from the source
Built == pc = "serving" /\ log = "built"

VerbRows == store.verbs.rows

\* C1: after a build, a source row is in 'verbs' if and only if its four
\* critical cells are all non-absent after blank coercion, and the table
\* holds nothing else.
C1_AdmissibleIffPresent ==
    Built =>
        /\ \A i \in DOMAIN csv.rows :
              Admissible(csv.rows[i]) <=>
                  \E j \in DOMAIN VerbRows : VerbRows[j] = Normalized(csv.rows[i], csv.header)
        /\ Len(VerbRows) = Cardinality(AdmissibleIndexes)

C1_Witness ==
    /\ Built
    /\ Len(csv.rows) = MaxRows
    /\ AdmissibleIndexes # {}
    /\ \E i \in DOMAIN csv.rows : csv.rows[i]["Translation"] = Blank
    /\ Len(VerbRows) = 1

\* C2: in every persisted record no cell is a null marker, no string is
\* whitespace-only or padded; a cell that was empty, whitespace-only or
\* absent in the source is the empty string and every other is the source
\* text trimmed.
C2_NoNullNoPadding ==
    Built =>
        \A j \in DOMAIN VerbRows :
            /\ \A c \in store.verbs.cols :
                  LET v == VerbRows[j][c]
                  IN  /\ ~v.isna
                      /\ v.str # <<>> =>
                            v.str[1] \notin Whitespace /\ v.str[Len(v.str)] \notin Whitespace
            /\ \E i \in DOMAIN csv.rows :
                  \A c \in store.verbs.cols :
                      VerbRows[j][c] = IF Absent(csv.rows[i][c])
                                       THEN Str(<<>>)
                                       ELSE Str(Trimmed(csv.rows[i][c].str))

C2_Witness ==
    /\ Built
    /\ csv.header = Columns
    /\ \E j \in DOMAIN VerbRows :
          /\ VerbRows[j]["Verb_Group"] = Str(<<>>)
          /\ VerbRows[j]["Present_Ego"] = Str(<<>>)
          /\ VerbRows[j]["Translation"] = Str(<<"z", "e">>)
          /\ \E i \in DOMAIN csv.rows : csv.rows[i] = RowPadded

\* C3: no two records of the built table share an ID.
C3_UniqueIds ==
    Built =>
        \A j, k \in DOMAIN VerbRows : j # k => VerbRows[j]["ID"] # VerbRows[k]["ID"]

\* C4: after every start of the process on the unchanged source, the
\* 'verbs' table is what the first start left: nothing is duplicated and
\* nothing accumulates.
C4_RebuildIdempotent == runs >= 1 => store.verbs = firstBuild

C4_Witness ==
    /\ runs = MaxRuns
    /\ Built
    /\ Len(VerbRows) = MaxRows

\* case folding as the specification means it: Greek letters too
FoldCase(c) == CASE c = "R" -> "r" [] c = "U" -> "u" [] c = "Τ" -> "τ" [] OTHER -> c

FoldStr(s) == [i \in DOMAIN s |-> FoldCase(s[i])]

\* term occurs in the cell's text, compared case-insensitively
ContainsCI(cell, term) ==
    /\ ~cell.isna
    /\ \E k \in 1..(Len(cell.str) - Len(term) + 1) :
          FoldStr(SubSeq(cell.str, k, k + Len(term) - 1)) = FoldStr(term)

RecordMatches(r, term) ==
    \/ ContainsCI(r["Greek_Verb"], term)
    \/ ContainsCI(r["English_Verb"], term)
    \/ ContainsCI(r["Translation"], term)

\* C5: for a non-blank term, /search answers success with exactly one
\* record if and only if some persisted record contains the term, compared
\* case-insensitively (Greek letters included), in Greek_Verb, English_Verb
\* or Translation; the record returned is such a match; otherwise the answer
\* is not-found.
C5_SearchFindsSubstring ==
    (Built /\ resp.route = "search" /\ resp.term # <<>>) =>
        IF \E j \in DOMAIN VerbRows : RecordMatches(VerbRows[j], resp.term)
        THEN /\ resp.success
             /\ Len(resp.verbs) = 1
             /\ RecordMatches(resp.verbs[1], resp.term)
        ELSE ~resp.success /\ resp.msg = "verb_not_found"

QueryRoutes == {"all_verbs", "search", "random_verb", "generate_sentence"}

C7_NoPropagation == pc # "crashed"

\* C8: while the process serves, no request changes the records of 'verbs'
\* and the build does not run again.
C8_ServingIsReadOnly ==
    [][(pc = "serving" /\ pc' = "serving") =>
          (store'.verbs = store.verbs /\ runs' = runs /\ log' = log)]_vars

C8_Witness ==
    /\ Built
    /\ Len(VerbRows) >= 1
    /\ resp.route = "random_verb"
    /\ resp.success

ExpectedRows ==
    LET kept == SelectSeq(csv.rows, Admissible)
    IN  [i \in DOMAIN kept |-> Normalized(kept[i], csv.header)]

\* C9: whatever the store file was at startup, when the source is readable
\* and has the required columns initialize_database ends with 'verbs'
\* holding exactly the admissible records of the source.
C9_EveryStoreRebuilt ==
    (pc = "serving" /\ csv.kind \in {"utf8", "latin1"}
                    /\ critical_cols \subseteq csv.header) =>
        /\ store.verbs.exists
        /\ VerbRows = ExpectedRows

\* C10: the 'conjugations' table migrate_data writes from a source with the
\* required columns holds one row per admissible source row and no other:
\* every row has non-blank ID, Greek_Verb, English_Verb and Translation.
C10_ConjugationsAdmissible ==
    (migrateLog = "migrated" /\ store.conjugations.exists
                             /\ critical_cols \subseteq csv.header) =>
        /\ \A j \in DOMAIN store.conjugations.rows :
              \A c \in critical_cols :
                  /\ c \in store.conjugations.cols
                  /\ ~Absent(store.conjugations.rows[j][c])
        /\ Len(store.conjugations.rows) = Cardinality(AdmissibleIndexes)

====
